---- MODULE Spec2Model ----
(***************************************************************************)
(* Saathi frontend services (api.js, auth.js, ThemeContext) together with  *)
(* the backend pipeline they talk to.  The frontend is translated from the *)
(* JavaScript sources; the backend (scorer, crisis detector, memory store, *)
(* orchestrator) has no source in the repository and is translated from    *)
(* the design document, and is marked as such where it is defined.         *)
(***************************************************************************)
EXTENDS Integers, Sequences, FiniteSets, TLC

\* ------------------------------------------------------------------------
\* Bounds of the model
\* ------------------------------------------------------------------------
MaxAuthOps == 4          \* auth operations started in one behaviour
MaxPending == 2          \* auth operations in flight at once
MaxMounts == 3           \* times ThemeContextProvider is mounted
MaxThemeChanges == 3     \* toggleTheme / setTheme calls in one behaviour
MaxClock == 1            \* Date.now() runs over 0..MaxClock
MaxApiCalls == 2         \* api calls started in one behaviour
MaxChunks == 3           \* MemoryChunks the store holds at most
MaxItems == 12           \* longest response vector of a screening form

\* ------------------------------------------------------------------------
\* Shared values
\* ------------------------------------------------------------------------
NoValue == "none"                        \* JS null / undefined / absent key
Emails == {"a@x", "b@x"}                 \* non-empty e-mail addresses
EmailInputs == Emails \cup {""}          \* what a caller may pass as e-mail
PromptAnswers == Emails \cup {"", NoValue} \* window.prompt: text, "" or null
ErrorKeys == {"code", "message", "details"}
Uids == {"u1", "u2"}                     \* user ids

VARIABLES
    \* ---- auth.js / firebase.js -------------------------------------------
    firebaseReady,      \* firebase.js `auth` is non-null
    emailForSignIn,     \* localStorage['emailForSignIn'], NoValue when absent
    currentUser,        \* auth.currentUser (e-mail stands for the user)
    authPending,        \* auth operations suspended at their await
    authResult,         \* how the last settled auth operation ended
    lastComplete,       \* what the last completeSignInWithEmailLink did
    expectedKey,        \* history: e-mail of the latest successful send that
                        \* no successful completion or sign-out followed
    authOps,            \* number of auth operations started
    \* ---- ThemeContext (second half of firebase.js) ------------------------
    themeMounted,       \* a ThemeContextProvider is mounted
    themeUser,          \* useAuth().user.uid of the mounted provider, or NoValue
    isDarkMode,         \* useState(false)
    themeLoading,       \* useState(true)
    saathiTheme,        \* localStorage['saathi_theme'], NoValue when absent
    profileTheme,       \* server side: theme_preference of each user's profile
    loadInFlight,       \* the load effect is suspended at await getUserProfile
    savesInFlight,      \* updateUserProfile requests not yet settled
    selection,          \* history: the last theme the user selected
    themeSteps,         \* mounts and theme changes so far, and whether every
                        \* profile save had settled at the last mount
    \* ---- api.js ----------------------------------------------------------
    now,                \* Date.now()
    apiCall,            \* the api call in flight ("idle" when none)
    apiOutcome,         \* how the last api call settled for its caller
    apiCalls,           \* number of api calls started
    screeningForm,      \* instrument and answers the screening form holds
    \* ---- backend (from the design document) ------------------------------
    run,                \* the pipeline run of the chat request being served
    openCritical,       \* session ids with an open critical CrisisEvent
    memoryStore,        \* MemoryChunks
    screeningHistory    \* ScreeningResults stored, per owner

authVars == <<firebaseReady, emailForSignIn, currentUser, authPending,
              authResult, lastComplete, expectedKey, authOps>>

themeVars == <<themeMounted, themeUser, isDarkMode, themeLoading, saathiTheme,
               profileTheme, loadInFlight, savesInFlight, selection, themeSteps>>

apiVars == <<now, apiCall, apiOutcome, apiCalls, screeningForm>>

backendVars == <<run, openCritical, memoryStore, screeningHistory>>

vars == <<authVars, themeVars, apiVars, backendVars>>

\* What the actions of one service leave alone.
notAuth == <<themeVars, apiVars, backendVars>>
notTheme == <<authVars, apiVars, backendVars>>
notApi == <<authVars, themeVars>>

\* ========================================================================
\* auth.js
\* ========================================================================

\* JS truthiness of a string-or-null value (`!email` is its negation).
Truthy(v) == v # NoValue /\ v # ""

\* The object every catch block of auth.js throws: {code, message, details}.
AuthError(fn, msg, before) ==
    [fn |-> fn, status |-> "rejected", keys |-> ErrorKeys, message |-> msg,
     keyBefore |-> before, keyAfter |-> before]

AuthSuccess(fn, before, after) ==
    [fn |-> fn, status |-> "resolved", keys |-> {}, message |-> "",
     keyBefore |-> before, keyAfter |-> after]

NoAuthResult ==
    [fn |-> NoValue, status |-> NoValue, keys |-> {}, message |-> "",
     keyBefore |-> NoValue, keyAfter |-> NoValue]

NoComplete ==
    [linkValid |-> FALSE, stored |-> NoValue, answer |-> NoValue,
     prompted |-> FALSE, called |-> FALSE, email |-> NoValue, seen |-> FALSE,
     rejected |-> FALSE, keys |-> {}]

\* firebase.js initializeFirebase: sets the module-level `auth`.
initializeFirebase ==
    /\ UNCHANGED notAuth
    /\ ~firebaseReady
    /\ firebaseReady' = TRUE
    /\ UNCHANGED <<emailForSignIn, currentUser, authPending, authResult,
                   lastComplete, expectedKey, authOps>>

\* localStorage after a successful sendSignInLinkToEmail (auth.js:78).
StoreAfterSend(stored, email) == email

\* localStorage after a successful signInWithEmailLink (auth.js:118).
StoreAfterComplete(stored) == NoValue

\* localStorage after a successful signOut (auth.js:149).
StoreAfterSignOutKeep(stored) == stored
StoreAfterSignOut(stored) == NoValue

\* sendSignInLinkToEmailAddress up to its await (auth.js:55-75).
\* getFirebaseAuth throws before anything is sent when firebase is not ready.
sendSignInLinkStart(email) ==
    /\ UNCHANGED notAuth
    /\ authOps < MaxAuthOps
    /\ authOps' = authOps + 1
    /\ IF ~firebaseReady
       THEN /\ authResult' = AuthError("send", "Firebase not initialized", emailForSignIn)
            /\ UNCHANGED authPending
       ELSE /\ Cardinality(authPending) < MaxPending
            /\ authPending' = authPending \cup {[op |-> "send", email |-> email]}
            /\ UNCHANGED authResult
    /\ UNCHANGED <<firebaseReady, emailForSignIn, currentUser, lastComplete, expectedKey>>

\* sendSignInLinkToEmailAddress after its await (auth.js:75-88).  Firebase
\* accepts only a non-empty address.
sendSignInLinkSettle(p, ok) ==
    /\ UNCHANGED notAuth
    /\ p \in authPending /\ p.op = "send"
    /\ ok => p.email # ""
    /\ authPending' = authPending \ {p}
    /\ IF ok
       THEN /\ emailForSignIn' = StoreAfterSend(emailForSignIn, p.email)
            /\ expectedKey' = p.email
            /\ authResult' = AuthSuccess("send", emailForSignIn, emailForSignIn')
       ELSE /\ authResult' = AuthError("send", "firebase error", emailForSignIn)
            /\ UNCHANGED <<emailForSignIn, expectedKey>>
    /\ UNCHANGED <<firebaseReady, currentUser, lastComplete, authOps>>

\* The e-mail completeSignInWithEmailLink hands to signInWithEmailLink
\* (auth.js:104-109): localStorage first, the prompt only when that is falsy.
EmailPromptFirst(stored, answer) == IF Truthy(answer) THEN answer ELSE stored
EmailForCompletion(stored, answer) == IF Truthy(stored) THEN stored ELSE answer

\* completeSignInWithEmailLink up to its await (auth.js:94-115).
completeSignInStart(linkValid, answer) ==
    /\ UNCHANGED notAuth
    /\ authOps < MaxAuthOps
    /\ authOps' = authOps + 1
    /\ LET stored == emailForSignIn
           email  == EmailForCompletion(stored, answer)
           base   == [linkValid |-> linkValid, stored |-> stored, answer |-> answer,
                      prompted |-> FALSE, called |-> FALSE, email |-> NoValue,
                      seen |-> TRUE, rejected |-> FALSE, keys |-> {}]
           thrown(r) == [r EXCEPT !.rejected = authResult'.status = "rejected",
                                  !.keys = authResult'.keys]
       IN  IF ~firebaseReady
           THEN /\ authResult' = AuthError("complete", "Firebase not initialized", stored)
                /\ lastComplete' = thrown(base)
                /\ UNCHANGED authPending
           ELSE IF ~linkValid
           THEN /\ authResult' = AuthError("complete", "Invalid sign-in link", stored)
                /\ lastComplete' = thrown(base)
                /\ UNCHANGED authPending
           ELSE IF ~Truthy(email)
           THEN /\ authResult' = AuthError("complete", "Email is required to complete sign-in", stored)
                /\ lastComplete' = thrown([base EXCEPT !.prompted = ~Truthy(stored)])
                /\ UNCHANGED authPending
           ELSE /\ Cardinality(authPending) < MaxPending
                /\ authPending' = authPending \cup {[op |-> "complete", email |-> email]}
                /\ lastComplete' = [base EXCEPT !.prompted = ~Truthy(stored),
                                                !.called = TRUE, !.email = email]
                /\ UNCHANGED authResult
    /\ UNCHANGED <<firebaseReady, emailForSignIn, currentUser, expectedKey>>

\* completeSignInWithEmailLink after its await (auth.js:115-137).
completeSignInSettle(p, ok) ==
    /\ UNCHANGED notAuth
    /\ p \in authPending /\ p.op = "complete"
    /\ authPending' = authPending \ {p}
    /\ IF ok
       THEN /\ emailForSignIn' = StoreAfterComplete(emailForSignIn)
            /\ expectedKey' = NoValue
            /\ currentUser' = p.email
            /\ authResult' = AuthSuccess("complete", emailForSignIn, emailForSignIn')
       ELSE /\ authResult' = AuthError("complete", "firebase error", emailForSignIn)
            /\ UNCHANGED <<emailForSignIn, expectedKey, currentUser>>
    /\ UNCHANGED <<firebaseReady, lastComplete, authOps>>

\* signOutUser up to its await (auth.js:143-146).
signOutStart ==
    /\ UNCHANGED notAuth
    /\ authOps < MaxAuthOps
    /\ authOps' = authOps + 1
    /\ IF ~firebaseReady
       THEN /\ authResult' = AuthError("signOut", "Firebase not initialized", emailForSignIn)
            /\ UNCHANGED authPending
       ELSE /\ Cardinality(authPending) < MaxPending
            /\ authPending' = authPending \cup {[op |-> "signOut", email |-> NoValue]}
            /\ UNCHANGED authResult
    /\ UNCHANGED <<firebaseReady, emailForSignIn, currentUser, lastComplete, expectedKey>>

\* signOutUser after its await (auth.js:146-159).
signOutSettle(p, ok) ==
    /\ UNCHANGED notAuth
    /\ p \in authPending /\ p.op = "signOut"
    /\ authPending' = authPending \ {p}
    /\ IF ok
       THEN /\ emailForSignIn' = StoreAfterSignOut(emailForSignIn)
            /\ expectedKey' = NoValue
            /\ currentUser' = NoValue
            /\ authResult' = AuthSuccess("signOut", emailForSignIn, emailForSignIn')
       ELSE /\ authResult' = AuthError("signOut", "firebase error", emailForSignIn)
            /\ UNCHANGED <<emailForSignIn, expectedKey, currentUser>>
    /\ UNCHANGED <<firebaseReady, lastComplete, authOps>>

InitAuthVars ==
    /\ firebaseReady = FALSE
    /\ emailForSignIn = NoValue
    /\ currentUser = NoValue
    /\ authPending = {}
    /\ authResult = NoAuthResult
    /\ lastComplete = NoComplete
    /\ expectedKey = NoValue
    /\ authOps = 0

NextAuth ==
    \/ initializeFirebase
    \/ \E e \in EmailInputs : sendSignInLinkStart(e)
    \/ \E p \in authPending, ok \in BOOLEAN : sendSignInLinkSettle(p, ok)
    \/ \E lv \in BOOLEAN, a \in PromptAnswers : completeSignInStart(lv, a)
    \/ \E p \in authPending, ok \in BOOLEAN : completeSignInSettle(p, ok)
    \/ signOutStart
    \/ \E p \in authPending, ok \in BOOLEAN : signOutSettle(p, ok)

\* ========================================================================
\* ThemeContextProvider (firebase.js:112-208)
\* ========================================================================
Themes == {"light", "dark"}

\* themePreference of the context value (firebase.js:197).
ThemePreference(dark) == IF dark THEN "dark" ELSE "light"

\* What the load effect reads for an authenticated user when getUserProfile
\* answers (firebase.js:141-143): profile?.theme_preference || 'light'.
ThemeFromProfile(profile) == IF profile = NoValue THEN "light" ELSE profile

\* What the load effect reads from localStorage (firebase.js:146, 151).
ThemeFromStorage(stored) == stored

\* The save effect (firebase.js:162-185), run after a render in which
\* isDarkMode, user or loading changed.  While loading it does nothing;
\* otherwise it writes localStorage and, for a signed-in user, sends
\* updateUserProfile.  Yields <<localStorage, requests in flight>>.
SaveEffect(dark, loading, user, stored, saves) ==
    IF loading THEN <<stored, saves>>
    ELSE <<ThemePreference(dark),
           IF user # NoValue
           THEN saves \cup {[uid |-> user, theme |-> ThemePreference(dark)]}
           ELSE saves>>

NoSelection == [theme |-> NoValue, user |-> NoValue, mount |-> 0, saved |-> FALSE]

InitThemeVars ==
    /\ themeMounted = FALSE
    /\ themeUser = NoValue
    /\ isDarkMode = FALSE
    /\ themeLoading = TRUE
    /\ saathiTheme = NoValue
    /\ profileTheme = [u \in Uids |-> NoValue]
    /\ loadInFlight = FALSE
    /\ savesInFlight = {}
    /\ selection = NoSelection
    /\ themeSteps = [mounts |-> 0, changes |-> 0, quiet |-> TRUE]

\* Mount of ThemeContextProvider for user u (NoValue: nobody signed in):
\* initial state, then the two effects.  With a user the load effect
\* suspends at getUserProfile; without one it runs to its end at once
\* (firebase.js:144-148, 154) and the re-render runs the save effect.
mountThemeProvider(u) ==
    /\ UNCHANGED notTheme
    /\ ~themeMounted
    /\ themeSteps.mounts < MaxMounts
    /\ themeSteps' = [themeSteps EXCEPT !.mounts = @ + 1,
                                        !.quiet = (savesInFlight = {})]
    /\ themeMounted' = TRUE
    /\ themeUser' = u
    /\ IF u # NoValue
       THEN /\ isDarkMode' = FALSE
            /\ themeLoading' = TRUE
            /\ loadInFlight' = TRUE
            /\ UNCHANGED <<saathiTheme, savesInFlight>>
       ELSE /\ isDarkMode' = (ThemeFromStorage(saathiTheme) = "dark")
            /\ themeLoading' = FALSE
            /\ loadInFlight' = FALSE
            /\ LET eff == SaveEffect(isDarkMode', FALSE, u, saathiTheme, savesInFlight)
               IN  saathiTheme' = eff[1] /\ savesInFlight' = eff[2]
    /\ UNCHANGED <<profileTheme, selection>>

\* getUserProfile settles (firebase.js:141-155): on success the profile's
\* theme, on failure the localStorage theme; loading ends, and the
\* re-render runs the save effect.
loadThemeSettle(ok) ==
    /\ UNCHANGED notTheme
    /\ themeMounted /\ loadInFlight
    /\ loadInFlight' = FALSE
    /\ LET savedTheme == IF ok THEN ThemeFromProfile(profileTheme[themeUser])
                               ELSE ThemeFromStorage(saathiTheme)
       IN  isDarkMode' = (savedTheme = "dark")
    /\ themeLoading' = FALSE
    /\ LET eff == SaveEffect(isDarkMode', FALSE, themeUser, saathiTheme, savesInFlight)
       IN  saathiTheme' = eff[1] /\ savesInFlight' = eff[2]
    /\ UNCHANGED <<themeMounted, themeUser, profileTheme, selection, themeSteps>>

\* setIsDarkMode(dark) from toggleTheme or setTheme, and the save effect of
\* the re-render when the state changed.
ChangeTheme(dark) ==
    /\ UNCHANGED notTheme
    /\ themeMounted
    /\ themeSteps.changes < MaxThemeChanges
    /\ themeSteps' = [themeSteps EXCEPT !.changes = @ + 1]
    /\ isDarkMode' = dark
    /\ IF dark # isDarkMode
       THEN LET eff == SaveEffect(dark, themeLoading, themeUser, saathiTheme, savesInFlight)
            IN  saathiTheme' = eff[1] /\ savesInFlight' = eff[2]
       ELSE UNCHANGED <<saathiTheme, savesInFlight>>
    /\ selection' = IF themeLoading THEN selection
                    ELSE [theme |-> ThemePreference(dark), user |-> themeUser,
                          mount |-> themeSteps.mounts, saved |-> TRUE]
    /\ UNCHANGED <<themeMounted, themeUser, themeLoading, profileTheme, loadInFlight>>

\* toggleTheme (firebase.js:187-189).
toggleTheme == ChangeTheme(~isDarkMode)

\* setTheme (firebase.js:191-193).
setTheme(theme) == ChangeTheme(theme = "dark")

\* An updateUserProfile request settles (firebase.js:171-178): the server
\* stores the theme, or the request fails and the effect only warns.
saveThemeSettle(req, ok) ==
    /\ UNCHANGED notTheme
    /\ req \in savesInFlight
    /\ savesInFlight' = savesInFlight \ {req}
    /\ profileTheme' = IF ok THEN [profileTheme EXCEPT ![req.uid] = req.theme]
                             ELSE profileTheme
    /\ UNCHANGED <<themeMounted, themeUser, isDarkMode, themeLoading, saathiTheme,
                   loadInFlight, selection, themeSteps>>

\* The provider unmounts; a load still in flight can no longer set state.
unmountThemeProvider ==
    /\ UNCHANGED notTheme
    /\ themeMounted
    /\ themeMounted' = FALSE
    /\ loadInFlight' = FALSE
    /\ UNCHANGED <<themeUser, isDarkMode, themeLoading, saathiTheme, profileTheme,
                   savesInFlight, selection, themeSteps>>

NextTheme ==
    \/ \E u \in {"u1", NoValue} : mountThemeProvider(u)
    \/ \E ok \in BOOLEAN : loadThemeSettle(ok)
    \/ toggleTheme
    \/ \E t \in Themes : setTheme(t)
    \/ \E req \in savesInFlight, ok \in BOOLEAN : saveThemeSettle(req, ok)
    \/ unmountThemeProvider


\* ========================================================================
\* api.js: the axios instance, its interceptors and the exported calls
\* ========================================================================

\* timeout of a request in ms: the instance default (api.js:14) unless the
\* call overrides it (transcribeAudio, api.js:105).
RequestTimeoutUnset(fn) == IF fn = "transcribeAudio" THEN 60000 ELSE 0
RequestTimeout(fn) == IF fn = "transcribeAudio" THEN 60000 ELSE 30000

\* What user.getIdToken may do for a signed-in user: return the token,
\* return an empty one, or fail (token refresh error).
IdTokenResults == {"token", "empty", "error"}

\* The two that make a difference to a server.
TokenOrError == {"token", "error"}

Threw(msg) == [threw |-> TRUE, token |-> NoValue, message |-> msg]

\* getUserIdToken (auth.js:181-195): the ID token of auth.currentUser; it
\* throws when firebase is not initialised (firebase.js:73-78), nobody is
\* signed in or getIdToken fails.  The token of a user is written as that
\* user's id.
getUserIdToken(tokenOk) ==
    IF ~firebaseReady THEN Threw("Firebase not initialized")
    ELSE IF currentUser = NoValue THEN Threw("No user signed in")
    ELSE IF tokenOk = "error" THEN Threw("token refresh failed")
    ELSE [threw |-> FALSE, token |-> IF tokenOk = "empty" THEN "" ELSE currentUser,
          message |-> NoValue]

\* Request interceptor, try block (api.js:23-32): the Authorization header
\* of the request (`Bearer ` left out), NoValue when it is sent without one.
AuthorizationHeader(tokenOk) ==
    LET r == getUserIdToken(tokenOk)
    IN  IF ~r.threw /\ Truthy(r.token) THEN r.token ELSE NoValue

\* Request interceptor (api.js:21-39): the config it resolves with.  The
\* catch swallows what getUserIdToken threw.
RequestInterceptorRethrow(tokenOk) ==
    LET r == getUserIdToken(tokenOk)
    IN  IF r.threw THEN [settled |-> "rejected", authorization |-> NoValue,
                         message |-> r.message]
        ELSE [settled |-> "resolved", authorization |-> AuthorizationHeader(tokenOk),
              message |-> NoValue]
RequestInterceptor(tokenOk) ==
    [settled |-> "resolved", authorization |-> AuthorizationHeader(tokenOk),
     message |-> NoValue]

\* JS null where an object may stand.
Null == [null |-> TRUE]

NoResponse == [kind |-> "no_response", status |-> 0, data |-> Null]

NoWire == [kind |-> "none", status |-> 0, data |-> Null]

\* An error axios raised before any request was made: neither
\* error.response nor error.request is set.
SetupError(msg) == [kind |-> "none", status |-> 0, data |-> Null, message |-> msg]

\* Server answer latencies in ms a behaviour may draw from.
Latencies == {200, 45000}

\* What axios hands to the response interceptor for an answer that took
\* `latency`: the response, or an error with only `request` set when the
\* timeout (0: none) expired first.
Wire(status, data, latency, timeout) ==
    IF timeout > 0 /\ latency > timeout
    THEN NoResponse
    ELSE [kind |-> "response", status |-> status, data |-> data]

\* JS property read: undefined when the object has no such property.
Prop(obj, key) == IF key \in DOMAIN obj THEN obj[key] ELSE NoValue

\* What a handler that throws rejects with: the Error object, which has a
\* name and a message and neither status nor data.
TypeError(msg) == [name |-> "TypeError", message |-> msg]

\* Response interceptor (api.js:42-71).  axios hands a 2xx response to the
\* first handler and everything else to the second; reading `.error` of
\* the body of an error response throws when the body is null.
ResponseInterceptor(wire) ==
    IF wire.kind = "response" /\ wire.status \in 200..299
    THEN [settled |-> "resolved", value |-> [status |-> wire.status, data |-> wire.data]]
    ELSE IF wire.kind = "response"
    THEN IF wire.data = Null
         THEN [settled |-> "rejected",
               value |-> TypeError("Cannot read properties of null")]
         ELSE [settled |-> "rejected",
               value |-> [status |-> wire.status,
                          message |-> IF Truthy(Prop(wire.data, "error"))
                                      THEN wire.data.error ELSE "An error occurred",
                          data |-> wire.data]]
    ELSE IF wire.kind = "no_response"
    THEN [settled |-> "rejected",
          value |-> [status |-> 0,
                     message |-> "Network error. Please check your connection.",
                     data |-> Null]]
    ELSE [settled |-> "rejected",
          value |-> [status |-> -1,
                     message |-> IF Truthy(Prop(wire, "message"))
                                 THEN wire.message ELSE "An unexpected error occurred",
                     data |-> Null]]

\* The try/catch every exported call wraps its request in (api.js:76-91 and
\* alike): `return response.data`, or rethrow what the interceptor rejected.
CallResultWholeResponse(intercepted) == intercepted
CallResult(intercepted) ==
    IF intercepted.settled = "resolved"
    THEN [settled |-> "resolved", value |-> intercepted.value.data]
    ELSE intercepted

Idle == [fn |-> NoValue, phase |-> "idle"]

NoRun == [state |-> "Idle"]

\* History kept with an outcome: what the caller had asked for, and for a
\* chat whether the session had an open critical event at the assessment.
Asked(call) ==
    IF call.fn = "sendChat"
    THEN [message |-> call.body.message, session_id |-> call.body.session_id,
          authorization |-> call.authorization,
          openAtAssess |-> IF run.state \in {"Done", "CrisisShortCircuit"}
                           THEN run.openAtAssess ELSE FALSE]
    ELSE IF call.fn = "getUserMemories"
    THEN [uid |-> call.body.uid, authorization |-> call.authorization]
    ELSE call.body

NoOutcome == [fn |-> NoValue, settled |-> NoValue, value |-> Null, body |-> Null]

\* session_id of a chat request (api.js:83): `session_${uid}_${Date.now()}`.
SessionId(uid, t) == <<uid, t>>

\* A request is made: the request interceptor runs, and the request leaves
\* the client when the interceptor resolved; a rejection of the interceptor
\* goes to the response interceptor as an error with neither response nor
\* request.  idToken keeps what getUserIdToken did.
Dispatch(fn, body, tokenOk) ==
    LET config == RequestInterceptor(tokenOk)
    IN  [fn |-> fn, body |-> body,
         phase |-> IF config.settled = "resolved" THEN "sent" ELSE "answered",
         authorization |-> config.authorization,
         idToken |-> getUserIdToken(tokenOk),
         timeout |-> RequestTimeout(fn),
         posts |-> IF config.settled = "resolved" THEN 1 ELSE 0,
         wire |-> IF config.settled = "resolved" THEN NoWire
                  ELSE SetupError(config.message)]

\* The clock advances.
Tick ==
    /\ now < MaxClock
    /\ now' = now + 1
    /\ UNCHANGED <<apiCall, apiOutcome, apiCalls, screeningForm>>
    /\ UNCHANGED backendVars
    /\ UNCHANGED notApi

\* The request or its answer is lost on the way: axios reports an error
\* with `request` set and no `response`.
NetworkFailure ==
    /\ apiCall.phase \in {"sent", "answered"}
    /\ apiCall' = [apiCall EXCEPT !.phase = "answered", !.wire = NoResponse]
    /\ apiCall.wire # NoResponse
    /\ UNCHANGED <<now, apiOutcome, apiCalls, screeningForm>>
    /\ UNCHANGED backendVars
    /\ UNCHANGED notApi

\* The awaited request settles: response interceptor, then the call's own
\* try/catch.  By then the server has let go of the request.
Settle ==
    /\ apiCall.phase = "answered"
    /\ LET r == CallResult(ResponseInterceptor(apiCall.wire))
       IN  apiOutcome' = [fn |-> apiCall.fn, settled |-> r.settled, value |-> r.value,
                          body |-> Asked(apiCall)]
    /\ apiCall' = Idle
    /\ run' = NoRun
    /\ UNCHANGED <<now, apiCalls, screeningForm, openCritical, memoryStore, screeningHistory>>
    /\ UNCHANGED notApi

\* ========================================================================
\* Backend pipeline.  The repository holds no backend source: everything in
\* this section follows the design document (sections 3 to 7).
\* ========================================================================
RiskLevels == <<"none", "low", "moderate", "high", "critical">>

Rank(level) == CHOOSE i \in 1..Len(RiskLevels) : RiskLevels[i] = level

AtLeast(level, floor) ==
    level \in {RiskLevels[i] : i \in 1..Len(RiskLevels)} /\ Rank(level) >= Rank(floor)

Higher(a, b) == IF Rank(a) >= Rank(b) THEN a ELSE b

\* The curated risk-indicator set (section 4.3 a) and the level each
\* indicator stands for; NoValue is a text without indicator.
CrisisIndicators == {"suicidal_ideation", "self_harm_intent"}

LexicalLevel(indicator) ==
    CASE indicator = "suicidal_ideation" -> "critical"
      [] indicator = "self_harm_intent"  -> "high"
      [] OTHER                           -> "none"

\* Monotonic escalation (section 4.3 c): an assessment in a session with an
\* open critical CrisisEvent starts at moderate.
EscalationFloorNone(session) == "none"
EscalationFloor(session) == IF session \in openCritical THEN "moderate" ELSE "none"

\* Crisis Detector, assess (section 4.3): the highest of the lexical match
\* over message and history window, the screening flag and the floor.
Assess(message, history, screening, session) ==
    Higher(Higher(LexicalLevel(message), LexicalLevel(history)),
           Higher(screening, EscalationFloor(session)))

IsCrisis(level) == level \in {"high", "critical"}

\* Memory Store, retrieve (section 4.4): the k most similar chunks of the
\* owner; chunk ids stand for similarity rank.  Empty when the embedding
\* service is down.
OwnerChunks(owner) == {c \in memoryStore : c.owner = owner}

RECURSIVE TopK(_, _)
TopK(chunks, k) ==
    IF k = 0 \/ chunks = {} THEN {}
    ELSE LET best == CHOOSE c \in chunks : \A d \in chunks : c.id <= d.id
         IN  {best} \cup TopK(chunks \ {best}, k - 1)

Retrieve(owner, k, embedOk) == IF embedOk THEN TopK(OwnerChunks(owner), k) ELSE {}

RetrieveK == 2               \* k the orchestrator retrieves with
MaxGenerationAttempts == 2   \* one attempt and at most one retry (section 5)

\* Chat payloads (section 6).
CrisisPayload(r) ==
    [reply_text |-> "crisis_script", risk_level |-> r.level,
     crisis_resources |-> "resources", session_id |-> r.session]

NormalPayload(r, reply) ==
    [reply_text |-> reply, risk_level |-> r.level,
     used_memory |-> r.retrieved # {}, session_id |-> r.session]

\* The chat request reaches the orchestrator: Start.
StartRun ==
    /\ apiCall.phase = "sent" /\ apiCall.fn = "sendChat"
    /\ apiCall' = [apiCall EXCEPT !.phase = "arrived"]
    /\ run' = [state |-> "Start", owner |-> apiCall.body.uid,
               session |-> apiCall.body.session_id,
               message |-> apiCall.body.message, history |-> apiCall.body.history,
               screening |-> apiCall.body.screening, blocked |-> FALSE,
               level |-> "none", openAtAssess |-> FALSE, retrieved |-> {},
               genAttempts |-> 0, reply |-> NoValue]
    /\ UNCHANGED <<now, apiOutcome, apiCalls, screeningForm, openCritical, memoryStore, screeningHistory>>
    /\ UNCHANGED notApi

\* Start -> Moderated (section 4.6, 1): a blocked message still goes on to
\* the crisis check.
Moderate ==
    /\ run.state = "Start"
    /\ run' = [run EXCEPT !.state = "Moderated", !.blocked = apiCall.body.disallowed]
    /\ UNCHANGED <<apiVars, openCritical, memoryStore, screeningHistory>>
    /\ UNCHANGED notApi

\* Moderated -> CrisisChecked (section 4.6, 2).
CrisisCheck ==
    /\ run.state = "Moderated"
    /\ run' = [run EXCEPT !.state = "CrisisChecked",
                          !.openAtAssess = (run.session \in openCritical),
                          !.level = Assess(run.message, run.history,
                                           run.screening, run.session)]
    /\ UNCHANGED <<apiVars, openCritical, memoryStore, screeningHistory>>
    /\ UNCHANGED notApi

\* CrisisChecked -> CrisisShortCircuit (section 4.6, 3): emit the
\* CrisisEvent and return the crisis payload.
ShortCircuit(latency) ==
    /\ run.state = "CrisisChecked" /\ IsCrisis(run.level)
    /\ run' = [run EXCEPT !.state = "CrisisShortCircuit", !.reply = "crisis_script"]
    /\ openCritical' = IF run.level = "critical"
                       THEN openCritical \cup {run.session} ELSE openCritical
    /\ apiCall' = [apiCall EXCEPT !.phase = "answered",
                       !.wire = Wire(200, CrisisPayload(run), latency, apiCall.timeout)]
    /\ UNCHANGED <<now, apiOutcome, apiCalls, screeningForm, memoryStore, screeningHistory>>
    /\ UNCHANGED notApi

\* A blocked message without crisis ends with the templated refusal
\* (section 4.2): no retrieval, no generation.
Refuse(latency) ==
    /\ run.state = "CrisisChecked" /\ ~IsCrisis(run.level) /\ run.blocked
    /\ run' = [run EXCEPT !.state = "Done", !.reply = "refusal"]
    /\ apiCall' = [apiCall EXCEPT !.phase = "answered",
                       !.wire = Wire(200, NormalPayload(run, "refusal"), latency,
                                     apiCall.timeout)]
    /\ UNCHANGED <<now, apiOutcome, apiCalls, screeningForm, openCritical, memoryStore, screeningHistory>>
    /\ UNCHANGED notApi

\* CrisisChecked -> MemoryRetrieved (section 4.6, 4); with the embedding
\* service down the result is empty (section 4.4).
RetrieveMemory(embedOk) ==
    /\ run.state = "CrisisChecked" /\ ~IsCrisis(run.level) /\ ~run.blocked
    /\ run' = [run EXCEPT !.state = "MemoryRetrieved",
                          !.retrieved = Retrieve(run.owner, RetrieveK, embedOk)]
    /\ UNCHANGED <<apiVars, openCritical, memoryStore, screeningHistory>>
    /\ UNCHANGED notApi

\* MemoryRetrieved -> Generated (section 4.6, 5): one call of the language
\* model; a timeout or backend error is retried once, then the fallback
\* apology stands (section 4.5).
Generate(outcome) ==
    /\ run.state = "MemoryRetrieved"
    /\ run.genAttempts < MaxGenerationAttempts
    /\ LET n == run.genAttempts + 1
       IN  run' = IF outcome = "ok"
                  THEN [run EXCEPT !.state = "Generated", !.genAttempts = n,
                                   !.reply = "generated"]
                  ELSE IF n < MaxGenerationAttempts
                  THEN [run EXCEPT !.genAttempts = n]
                  ELSE [run EXCEPT !.state = "Generated", !.genAttempts = n,
                                   !.reply = "fallback"]
    /\ UNCHANGED <<apiVars, openCritical, memoryStore, screeningHistory>>
    /\ UNCHANGED notApi

\* Generated -> Done (section 4.6, 6): append the assistant message and
\* return the result.
Finish(latency) ==
    /\ run.state = "Generated"
    /\ run' = [run EXCEPT !.state = "Done"]
    /\ apiCall' = [apiCall EXCEPT !.phase = "answered",
                       !.wire = Wire(200, NormalPayload(run, run.reply), latency,
                                     apiCall.timeout)]
    /\ UNCHANGED <<now, apiOutcome, apiCalls, screeningForm, openCritical, memoryStore, screeningHistory>>
    /\ UNCHANGED notApi

\* A counselor follow-up clears the open critical event of a session
\* (section 4.3 c).
CounselorClear(session) ==
    /\ session \in openCritical
    /\ run.state \in {"Idle", "Done", "CrisisShortCircuit"}
    /\ openCritical' = openCritical \ {session}
    /\ UNCHANGED <<apiVars, run, memoryStore, screeningHistory>>
    /\ UNCHANGED notApi

\* ------------------------------------------------------------------------
\* api.js sendChat (api.js:76-91) up to its await.  A message is given by
\* the risk indicator it contains and whether policy disallows it; history
\* and the screening flag likewise by what the detector reads from them.
\* ------------------------------------------------------------------------
ChatMessages == CrisisIndicators \cup {NoValue}

sendChat(uid, message, disallowed, history, screening, tokenOk) ==
    /\ apiCall.phase = "idle"
    /\ apiCalls < MaxApiCalls
    /\ apiCalls' = apiCalls + 1
    /\ apiCall' = Dispatch("sendChat",
                           [uid |-> uid, message |-> message, disallowed |-> disallowed,
                            history |-> history, screening |-> screening,
                            session_id |-> SessionId(uid, now)],
                           tokenOk)
    /\ UNCHANGED <<now, apiOutcome, screeningForm>>
    /\ UNCHANGED backendVars
    /\ UNCHANGED notApi

\* api.js transcribeAudio (api.js:96-113) up to its await.
transcribeAudio(tokenOk) ==
    /\ apiCall.phase = "idle"
    /\ apiCalls < MaxApiCalls
    /\ apiCalls' = apiCalls + 1
    /\ apiCall' = Dispatch("transcribeAudio", [audio |-> "audio.wav"], tokenOk)
    /\ UNCHANGED <<now, apiOutcome, screeningForm>>
    /\ UNCHANGED backendVars
    /\ UNCHANGED notApi

\* The transcription service answers with the text (section 6, collaborator).
Transcribe(latency) ==
    /\ apiCall.phase = "sent" /\ apiCall.fn = "transcribeAudio"
    /\ apiCall' = [apiCall EXCEPT !.phase = "answered",
                       !.wire = Wire(200, [text |-> "transcript"], latency,
                                     apiCall.timeout)]
    /\ UNCHANGED <<now, apiOutcome, apiCalls, screeningForm>>
    /\ UNCHANGED backendVars
    /\ UNCHANGED notApi

\* ------------------------------------------------------------------------
\* Screening Scorer (design section 4.1; the band tables are also those of
\* the README, part_000:117-132).
\* ------------------------------------------------------------------------
Instruments == {"PHQ9", "GAD7", "GHQ12"}

ItemCount(instrument) ==
    CASE instrument = "PHQ9"  -> 9
      [] instrument = "GAD7"  -> 7
      [] instrument = "GHQ12" -> 12

ValueDomain(instrument) == 0..3

\* GHQ-12 maps each item 0-0-1-1 before summing; the others sum the values.
ItemScore(instrument, v) ==
    IF instrument = "GHQ12" THEN (IF v >= 2 THEN 1 ELSE 0) ELSE v

RECURSIVE TotalScore(_, _)
TotalScore(instrument, responses) ==
    IF responses = <<>> THEN 0
    ELSE ItemScore(instrument, Head(responses)) + TotalScore(instrument, Tail(responses))

\* Severity band of a total; GHQ-12 has no named bands.
SeverityBandShifted(instrument, total) ==
    CASE instrument = "PHQ9" ->
             IF total <= 5 THEN "Minimal"
             ELSE IF total <= 9 THEN "Mild"
             ELSE IF total <= 14 THEN "Moderate"
             ELSE IF total <= 19 THEN "Moderately Severe"
             ELSE "Severe"
      [] instrument = "GAD7" ->
             IF total <= 4 THEN "Minimal"
             ELSE IF total <= 9 THEN "Mild"
             ELSE IF total <= 14 THEN "Moderate"
             ELSE "Severe"
      [] OTHER -> NoValue
SeverityBand(instrument, total) ==
    CASE instrument = "PHQ9" ->
             IF total <= 4 THEN "Minimal"
             ELSE IF total <= 9 THEN "Mild"
             ELSE IF total <= 14 THEN "Moderate"
             ELSE IF total <= 19 THEN "Moderately Severe"
             ELSE "Severe"
      [] instrument = "GAD7" ->
             IF total <= 4 THEN "Minimal"
             ELSE IF total <= 9 THEN "Mild"
             ELSE IF total <= 14 THEN "Moderate"
             ELSE "Severe"
      [] OTHER -> NoValue

\* Validation of a submission: length and value domain, fail-closed.
ValidResponsesLengthOnly(instrument, responses) ==
    Len(responses) = ItemCount(instrument)
ValidResponses(instrument, responses) ==
    /\ Len(responses) = ItemCount(instrument)
    /\ \A i \in 1..Len(responses) : responses[i] \in ValueDomain(instrument)

\* score(instrument, responses): the ScreeningResult.
Score(owner, instrument, responses) ==
    LET total == TotalScore(instrument, responses)
    IN  [instrument |-> instrument, owner_id |-> owner, raw_responses |-> responses,
         total_score |-> total, severity_band |-> SeverityBand(instrument, total)]

ScoringValidationError == [error |-> "ScoringValidationError"]

\* Screening endpoint (section 6): the result, stored in the owner's
\* history, or 422 ScoringValidationError and nothing stored.
ScoreScreening(latency) ==
    /\ apiCall.phase = "sent" /\ apiCall.fn = "submitScreening"
    /\ LET b == apiCall.body
       IN  IF ValidResponses(b.screening_type, b.responses)
           THEN LET result == Score(b.uid, b.screening_type, b.responses)
                IN  /\ screeningHistory' =
                           [screeningHistory EXCEPT ![b.uid] = Append(@, result)]
                    /\ apiCall' = [apiCall EXCEPT !.phase = "answered",
                                       !.wire = Wire(200, result, latency, apiCall.timeout)]
           ELSE /\ UNCHANGED screeningHistory
                /\ apiCall' = [apiCall EXCEPT !.phase = "answered",
                                   !.wire = Wire(422, ScoringValidationError, latency,
                                                 apiCall.timeout)]
    /\ UNCHANGED <<now, apiOutcome, apiCalls, screeningForm, run, openCritical, memoryStore>>
    /\ UNCHANGED notApi

\* Response vectors the screening form may hold: up to MaxItems answers
\* from the domain 0..3 and its neighbours -1 and 4, listed in
\* non-decreasing order with at most one -1 (neither the validation nor the
\* total depends on the order of the answers).
RECURSIVE VectorsFrom(_, _)
VectorsFrom(len, lo) ==
    IF len = 0 THEN {<<>>}
    ELSE UNION {{<<v>> \o w : w \in VectorsFrom(len - 1, v)} : v \in lo..4}

ResponseVectors ==
    UNION {VectorsFrom(n, 0) : n \in 0..MaxItems}
    \cup UNION {{<<-1>> \o w : w \in VectorsFrom(n, 0)} : n \in 0..(MaxItems - 1)}

\* api.js submitScreening (api.js:159-172) up to its await, with the
\* instrument and response vector the form holds.
submitScreening(uid, tokenOk) ==
    /\ apiCall.phase = "idle"
    /\ apiCalls < MaxApiCalls
    /\ apiCalls' = apiCalls + 1
    /\ apiCall' = Dispatch("submitScreening",
                           [uid |-> uid, screening_type |-> screeningForm.screening_type,
                            responses |-> screeningForm.responses],
                           tokenOk)
    /\ UNCHANGED <<now, apiOutcome, screeningForm>>
    /\ UNCHANGED backendVars
    /\ UNCHANGED notApi

NextScreening ==
    \/ \E tokenOk \in TokenOrError : submitScreening("u1", tokenOk)
    \/ \E l \in Latencies : ScoreScreening(l)
    \/ NetworkFailure
    \/ Settle

\* ------------------------------------------------------------------------
\* Memory Store endpoints (design sections 4.4 and 6).  The owner of a
\* request is the owner id the request carries; no stage of the design
\* compares it with the identity behind the Authorization header.
\* ------------------------------------------------------------------------
\* Chunk ids are unique in the store.
NextChunkId ==
    IF memoryStore = {} THEN 1
    ELSE 1 + (CHOOSE n \in {c.id : c \in memoryStore} : \A c \in memoryStore : c.id <= n)

\* Ingestion endpoint: ingest stores the passages of the document as chunks
\* of the owner, all or nothing (IngestionError when extraction fails).
Ingest(passages, ok, latency) ==
    /\ apiCall.phase = "sent" /\ apiCall.fn = "ingestFile"
    /\ IF ok /\ Cardinality(memoryStore) + passages <= MaxChunks
       THEN /\ memoryStore' = memoryStore \cup
                   {[owner |-> apiCall.body.uid, id |-> NextChunkId + p] :
                        p \in 0..(passages - 1)}
            /\ apiCall' = [apiCall EXCEPT !.phase = "answered",
                               !.wire = Wire(200, [chunks_ingested |-> passages],
                                             latency, apiCall.timeout)]
       ELSE /\ UNCHANGED memoryStore
            /\ apiCall' = [apiCall EXCEPT !.phase = "answered",
                               !.wire = Wire(422, [error |-> "IngestionError"],
                                             latency, apiCall.timeout)]
    /\ UNCHANGED <<now, apiOutcome, apiCalls, screeningForm, run, openCritical,
                   screeningHistory>>
    /\ UNCHANGED notApi

\* Memory read endpoint: retrieve for the owner the request names.
ReadMemories(k, embedOk, latency) ==
    /\ apiCall.phase = "sent" /\ apiCall.fn = "getUserMemories"
    /\ apiCall' = [apiCall EXCEPT !.phase = "answered",
                       !.wire = Wire(200,
                                     [memories |-> Retrieve(apiCall.body.uid, k, embedOk)],
                                     latency, apiCall.timeout)]
    /\ UNCHANGED <<now, apiOutcome, apiCalls, screeningForm>>
    /\ UNCHANGED backendVars
    /\ UNCHANGED notApi

\* delete_owner_data: irreversible purge of one owner's chunks.
DeleteOwnerData(owner) ==
    /\ apiCall.phase = "idle"
    /\ OwnerChunks(owner) # {}
    /\ memoryStore' = memoryStore \ OwnerChunks(owner)
    /\ UNCHANGED <<apiVars, run, openCritical, screeningHistory>>
    /\ UNCHANGED notApi

\* api.js ingestFile (api.js:118-131) up to its await.
ingestFile(uid, tokenOk) ==
    /\ apiCall.phase = "idle"
    /\ apiCalls < MaxApiCalls
    /\ apiCalls' = apiCalls + 1
    /\ apiCall' = Dispatch("ingestFile",
                           [fileUrl |-> "url", uid |-> uid, filename |-> "file"], tokenOk)
    /\ UNCHANGED <<now, apiOutcome, screeningForm>>
    /\ UNCHANGED backendVars
    /\ UNCHANGED notApi

\* api.js getUserMemories (api.js:203-211) up to its await: the uid goes
\* into the query string as given.
getUserMemories(uid, tokenOk) ==
    /\ apiCall.phase = "idle"
    /\ apiCalls < MaxApiCalls
    /\ apiCalls' = apiCalls + 1
    /\ apiCall' = Dispatch("getUserMemories", [uid |-> uid], tokenOk)
    /\ UNCHANGED <<now, apiOutcome, screeningForm>>
    /\ UNCHANGED backendVars
    /\ UNCHANGED notApi

NextMemory ==
    \/ \E uid \in Uids, tokenOk \in TokenOrError : ingestFile(uid, tokenOk)
    \/ \E n \in 1..2, ok \in BOOLEAN, l \in Latencies : Ingest(n, ok, l)
    \/ \E uid \in Uids, tokenOk \in TokenOrError : getUserMemories(uid, tokenOk)
    \/ \E k \in 0..RetrieveK, ok \in BOOLEAN, l \in Latencies : ReadMemories(k, ok, l)
    \/ \E o \in Uids : DeleteOwnerData(o)
    \/ NetworkFailure
    \/ Settle

\* ------------------------------------------------------------------------
\* The other exported calls of api.js (api.js:136-254): each one request
\* through the api instance, `return response.data` or rethrow.
\* ------------------------------------------------------------------------
PlainCalls == {"getUserProfile", "updateUserProfile", "getScreeningHistory",
               "getConversationHistory", "sendOTP", "verifyOTP", "healthCheck"}

apiRequest(fn, tokenOk) ==
    /\ apiCall.phase = "idle"
    /\ apiCalls < MaxApiCalls
    /\ apiCalls' = apiCalls + 1
    /\ apiCall' = Dispatch(fn, [call |-> fn], tokenOk)
    /\ UNCHANGED <<now, apiOutcome, screeningForm>>
    /\ UNCHANGED backendVars
    /\ UNCHANGED notApi

\* Bodies a server or a gateway in front of it answers with.
AnswerBodies == {[error |-> "Not found"], [error |-> ""], [detail |-> "failed"], Null}

AnswerStatuses == {200, 404, 500}

\* Some server answers the request with a status and a body.
ServerAnswer(status, data, latency) ==
    /\ apiCall.phase = "sent" /\ apiCall.fn \in PlainCalls
    /\ apiCall' = [apiCall EXCEPT !.phase = "answered",
                       !.wire = Wire(status, data, latency, apiCall.timeout)]
    /\ UNCHANGED <<now, apiOutcome, apiCalls, screeningForm>>
    /\ UNCHANGED backendVars
    /\ UNCHANGED notApi

\* axios fails before a request is made (bad config, cancellation): the
\* error has neither `response` nor `request`, and a message or none.
SetupFailure(msg) ==
    /\ apiCall.phase = "sent" /\ apiCall.fn \in PlainCalls
    /\ apiCall' = [apiCall EXCEPT !.phase = "answered", !.wire = SetupError(msg)]
    /\ UNCHANGED <<now, apiOutcome, apiCalls, screeningForm>>
    /\ UNCHANGED backendVars
    /\ UNCHANGED notApi

NextRequests ==
    \/ \E fn \in PlainCalls, tokenOk \in IdTokenResults : apiRequest(fn, tokenOk)
    \/ \E st \in AnswerStatuses, d \in AnswerBodies, l \in Latencies : ServerAnswer(st, d, l)
    \/ \E msg \in {"canceled", ""} : SetupFailure(msg)
    \/ NetworkFailure
    \/ Settle

InitApiVars ==
    /\ now = 0
    /\ apiCall = Idle
    /\ apiOutcome = NoOutcome
    /\ apiCalls = 0
    /\ screeningForm = [screening_type |-> "PHQ9", responses |-> <<>>]

InitBackendVars ==
    /\ run = NoRun
    /\ openCritical = {}
    /\ memoryStore = {}
    /\ screeningHistory = [u \in Uids |-> <<>>]

\* ========================================================================
\* Specifications
\* ========================================================================
InitAuth == InitAuthVars /\ InitThemeVars /\ InitApiVars /\ InitBackendVars

SpecAuth == InitAuth /\ [][NextAuth]_vars

InitTheme == InitAuthVars /\ InitThemeVars /\ InitApiVars /\ InitBackendVars

SpecTheme == InitTheme /\ [][NextTheme]_vars

\* The chat path: sendChat, the transport and the pipeline.  A user may be
\* signed in; the memory store holds chunks ingested earlier.
SignedIn ==
    /\ firebaseReady = TRUE
    /\ currentUser \in {"u1", NoValue}
    /\ emailForSignIn = NoValue
    /\ authPending = {}
    /\ authResult = NoAuthResult
    /\ lastComplete = NoComplete
    /\ expectedKey = NoValue
    /\ authOps = 0

Init ==
    /\ SignedIn /\ InitThemeVars /\ InitApiVars
    /\ run = NoRun
    /\ openCritical = {}
    /\ memoryStore = {[owner |-> "u1", id |-> 1]}
    /\ screeningHistory = [u \in Uids |-> <<>>]

Next ==
    \/ Tick
    \/ \E uid \in Uids, m \in ChatMessages, d \in BOOLEAN,
          h \in {NoValue, "self_harm_intent"}, sc \in {"none", "moderate"},
          tokenOk \in TokenOrError : sendChat(uid, m, d, h, sc, tokenOk)
    \/ NetworkFailure
    \/ StartRun
    \/ Moderate
    \/ CrisisCheck
    \/ \E l \in Latencies : ShortCircuit(l)
    \/ \E l \in Latencies : Refuse(l)
    \/ \E ok \in BOOLEAN : RetrieveMemory(ok)
    \/ \E o \in {"ok", "timeout", "backend_error"} : Generate(o)
    \/ \E l \in Latencies : Finish(l)
    \/ \E sid \in openCritical : CounselorClear(sid)
    \/ \E tokenOk \in TokenOrError : transcribeAudio(tokenOk)
    \/ \E l \in Latencies : Transcribe(l)
    \/ Settle

Spec == Init /\ [][Next]_vars

\* The screening path: the form holds some response vector and submits it.
InitScreening ==
    /\ SignedIn /\ InitThemeVars /\ InitBackendVars
    /\ now = 0 /\ apiCall = Idle /\ apiOutcome = NoOutcome /\ apiCalls = 0
    /\ screeningForm \in [screening_type : Instruments, responses : ResponseVectors]

SpecScreening == InitScreening /\ [][NextScreening]_vars

\* The memory path: documents are ingested for either owner and memories
\* are read, by a signed-in user or by nobody.
InitMemory == SignedIn /\ InitThemeVars /\ InitApiVars /\ InitBackendVars

SpecMemory == InitMemory /\ [][NextMemory]_vars

\* Requests of the api instance while firebase is initialised or not and a
\* user is signed in or not.
InitRequests ==
    /\ firebaseReady \in BOOLEAN
    /\ currentUser \in {"u1", NoValue}
    /\ currentUser # NoValue => firebaseReady
    /\ emailForSignIn = NoValue
    /\ authPending = {}
    /\ authResult = NoAuthResult
    /\ lastComplete = NoComplete
    /\ expectedKey = NoValue
    /\ authOps = 0
    /\ InitThemeVars /\ InitApiVars /\ InitBackendVars

SpecRequests == InitRequests /\ [][NextRequests]_vars

\* ========================================================================
\* Claims
\* ========================================================================

\* ------------------------------------------------------------------------
\* C1: for a chat message that contains a recognized crisis indicator the
\* pipeline run ends in CrisisShortCircuit and nowhere else, it never
\* retrieves memory and never calls the Response Generator, and the payload
\* sendChat returns to its caller is the crisis script with risk_level high
\* or critical.
\* ------------------------------------------------------------------------
C1_CrisisShortCircuits ==
    /\ (run.state # "Idle" /\ run.message \in CrisisIndicators) =>
          /\ run.state \in {"Start", "Moderated", "CrisisChecked", "CrisisShortCircuit"}
          /\ run.genAttempts = 0 /\ run.retrieved = {}
          /\ run.state \in {"CrisisChecked", "CrisisShortCircuit"} => IsCrisis(run.level)
          /\ apiCall.phase = "answered" => run.state = "CrisisShortCircuit"
    /\ ( /\ apiOutcome.fn = "sendChat" /\ apiOutcome.settled = "resolved"
         /\ apiOutcome.body.message \in CrisisIndicators ) =>
          /\ Prop(apiOutcome.value, "risk_level") \in {"high", "critical"}
          /\ Prop(apiOutcome.value, "reply_text") = "crisis_script"

\* A message with suicidal ideation was answered with the crisis payload.
C1_Witness ==
    /\ apiOutcome.fn = "sendChat" /\ apiOutcome.settled = "resolved"
    /\ apiOutcome.body.message = "suicidal_ideation"
    /\ Prop(apiOutcome.value, "risk_level") = "critical"

\* ------------------------------------------------------------------------
\* C2: once a session (the session_id carried by the request) has an open
\* critical CrisisEvent, every later message of that session, a neutral one
\* included, is assessed and answered with risk_level at least moderate.
\* ------------------------------------------------------------------------
C2_MonotonicEscalation ==
    /\ ( /\ run.state \in {"CrisisChecked", "MemoryRetrieved", "Generated", "Done",
                           "CrisisShortCircuit"}
         /\ run.openAtAssess ) => AtLeast(run.level, "moderate")
    /\ ( /\ apiOutcome.fn = "sendChat" /\ apiOutcome.settled = "resolved"
         /\ apiOutcome.body.openAtAssess ) =>
          AtLeast(Prop(apiOutcome.value, "risk_level"), "moderate")

\* A neutral message sent in a session with an open critical event came
\* back with risk_level moderate.
C2_Witness ==
    /\ apiOutcome.fn = "sendChat" /\ apiOutcome.settled = "resolved"
    /\ apiOutcome.body.openAtAssess /\ apiOutcome.body.message = NoValue
    /\ Prop(apiOutcome.value, "risk_level") = "moderate"
    /\ apiOutcome.body.session_id \in openCritical

\* ------------------------------------------------------------------------
\* C3: no chat request ends in a caller-visible failure: a failing pipeline
\* step is absorbed (empty memory with used_memory = false, the fallback
\* message after failed generation) and sendChat still returns a reply.
\* ------------------------------------------------------------------------
C3_ChatNeverFailsVisibly ==
    /\ (run.state = "Done" /\ run.retrieved = {} /\ apiCall.wire.kind = "response") =>
          Prop(apiCall.wire.data, "used_memory") = FALSE
    /\ apiOutcome.fn = "sendChat" => apiOutcome.settled = "resolved"

RECURSIVE SumOf(_)
SumOf(seq) == IF seq = <<>> THEN 0 ELSE seq[1] + SumOf(SubSeq(seq, 2, Len(seq)))

ValidPhq9(body) ==
    /\ body.screening_type = "PHQ9"
    /\ Len(body.responses) = 9
    /\ \A i \in 1..Len(body.responses) : body.responses[i] \in 0..3

BreaksSchema(body) ==
    \/ Len(body.responses) # (CASE body.screening_type = "PHQ9" -> 9
                                [] body.screening_type = "GAD7" -> 7
                                [] body.screening_type = "GHQ12" -> 12)
    \/ \E i \in 1..Len(body.responses) : body.responses[i] < 0 \/ body.responses[i] > 3

Phq9Table(total, band) ==
    \/ total \in 0..4   /\ band = "Minimal"
    \/ total \in 5..9   /\ band = "Mild"
    \/ total \in 10..14 /\ band = "Moderate"
    \/ total \in 15..19 /\ band = "Moderately Severe"
    \/ total \in 20..27 /\ band = "Severe"

\* ------------------------------------------------------------------------
\* C5: for every valid PHQ-9 response vector (9 values in 0..3) the score
\* operation answers with the sum as total, in 0..27, and the severity band
\* Minimal 0-4, Mild 5-9, Moderate 10-14, Moderately Severe 15-19, Severe
\* 20-27; submitScreening hands exactly that to its caller.
\* ------------------------------------------------------------------------
C5_Phq9TotalAndBand ==
    /\ ( /\ apiCall.fn = "submitScreening" /\ apiCall.phase = "answered"
         /\ apiCall.wire.kind = "response" /\ ValidPhq9(apiCall.body) ) =>
          /\ apiCall.wire.status = 200
          /\ apiCall.wire.data.total_score = SumOf(apiCall.body.responses)
          /\ Phq9Table(apiCall.wire.data.total_score, apiCall.wire.data.severity_band)
    /\ ( /\ apiOutcome.fn = "submitScreening" /\ apiOutcome.settled = "resolved"
         /\ ValidPhq9(apiOutcome.body) ) =>
          /\ Prop(apiOutcome.value, "total_score") = SumOf(apiOutcome.body.responses)
          /\ Prop(apiOutcome.value, "total_score") \in 0..27
          /\ Phq9Table(Prop(apiOutcome.value, "total_score"),
                       Prop(apiOutcome.value, "severity_band"))

\* A PHQ-9 submission with total 5, just above the Minimal band, came back
\* as Mild.
C5_Witness ==
    /\ apiOutcome.fn = "submitScreening" /\ apiOutcome.settled = "resolved"
    /\ ValidPhq9(apiOutcome.body)
    /\ Prop(apiOutcome.value, "total_score") = 5
    /\ Prop(apiOutcome.value, "severity_band") = "Mild"

\* ------------------------------------------------------------------------
\* C6: a screening whose response vector has the wrong length for its
\* instrument or holds a value outside 0..3 is rejected with
\* ScoringValidationError: the server answers 422, stores no record, and
\* submitScreening rejects; no score reaches the caller.
\* ------------------------------------------------------------------------
C6_InvalidScreeningRejected ==
    /\ \A u \in Uids : \A i \in 1..Len(screeningHistory[u]) :
          ~BreaksSchema([screening_type |-> screeningHistory[u][i].instrument,
                         responses |-> screeningHistory[u][i].raw_responses])
    /\ ( /\ apiCall.fn = "submitScreening" /\ apiCall.phase = "answered"
         /\ apiCall.wire.kind = "response" /\ BreaksSchema(apiCall.body) ) =>
          /\ apiCall.wire.status = 422
          /\ apiCall.wire.data = ScoringValidationError
    /\ (apiOutcome.fn = "submitScreening" /\ BreaksSchema(apiOutcome.body)) =>
          /\ apiOutcome.settled = "rejected"
          /\ apiOutcome.value.status \in {422, 0}
          /\ apiOutcome.value.status = 422 =>
                apiOutcome.value.message = "ScoringValidationError"
          /\ Prop(apiOutcome.value, "total_score") = NoValue

\* A PHQ-9 vector of nine answers, one of them 4, was rejected with 422 and
\* left the history empty.
C6_Witness ==
    /\ apiOutcome.fn = "submitScreening" /\ apiOutcome.settled = "rejected"
    /\ apiOutcome.value.status = 422
    /\ apiOutcome.body.screening_type = "PHQ9"
    /\ Len(apiOutcome.body.responses) = 9
    /\ \E i \in 1..9 : apiOutcome.body.responses[i] = 4
    /\ \A i \in 1..9 : apiOutcome.body.responses[i] \in 0..4
    /\ screeningHistory["u1"] = <<>>

\* ------------------------------------------------------------------------
\* C7: every request carries an explicit finite timeout and is sent once;
\* one chat message is submitted for generation at most twice (the attempt
\* and one retry), and a message answered by the crisis short-circuit is
\* neither generated for nor sent again.
\* ------------------------------------------------------------------------
C7_TimeoutAndBoundedRetry ==
    /\ apiCall.phase # "idle" =>
          /\ apiCall.timeout > 0 /\ apiCall.timeout <= 60000
          /\ apiCall.posts = 1
    /\ run.state # "Idle" =>
          /\ run.genAttempts <= 2
          /\ run.state = "CrisisShortCircuit" => run.genAttempts = 0

\* Generation failed twice, the fallback stands, and the request that waits
\* for it carries the 30 s timeout.
C7_Witness ==
    /\ run.state = "Generated" /\ run.genAttempts = 2 /\ run.reply = "fallback"
    /\ apiCall.fn = "sendChat" /\ apiCall.timeout = 30000

\* ------------------------------------------------------------------------
\* C8: the theme preference is persistent: after a user selects theme T and
\* the save effect has run (and its profile request has settled), the next
\* mount of ThemeContextProvider for the same user, or without a user in the
\* same browser, ends loading with themePreference = T, also when the
\* profile save or the profile load fails.
\* ------------------------------------------------------------------------
C8_ThemePersistent ==
    ( /\ themeMounted /\ ~themeLoading
      /\ selection.saved
      /\ themeSteps.mounts = selection.mount + 1
      /\ themeSteps.quiet
      /\ themeUser = selection.user )
    => ThemePreference(isDarkMode) = selection.theme

\* ------------------------------------------------------------------------
\* C9: the localStorage key 'emailForSignIn' is present only if some send
\* has succeeded and no completion or sign-out has succeeded since; it then
\* holds the e-mail of the latest successful send; and a failed send,
\* completion or sign-out leaves the key exactly as it was.
\* ------------------------------------------------------------------------
C9_EmailKeyTracksHistory ==
    /\ emailForSignIn = expectedKey
    /\ emailForSignIn # NoValue => emailForSignIn \in Emails
    /\ authResult.status = "rejected" => authResult.keyAfter = authResult.keyBefore

\* A second successful send replaced the e-mail an earlier one had stored.
C9_Witness ==
    /\ authResult.fn = "send" /\ authResult.status = "resolved"
    /\ authResult.keyBefore = "a@x" /\ authResult.keyAfter = "b@x"
    /\ emailForSignIn = "b@x"

\* ------------------------------------------------------------------------
\* C10: completeSignInWithEmailLink calls signInWithEmailLink only when the
\* link passes isSignInWithEmailLink and a non-empty e-mail was obtained,
\* from localStorage first and from the prompt only when storage has none;
\* otherwise it rejects with {code, message, details} and makes no call.
\* ------------------------------------------------------------------------
C10_CompleteSignInGuarded ==
    lastComplete.seen =>
        /\ lastComplete.called =>
              /\ lastComplete.linkValid
              /\ lastComplete.email \in Emails
              /\ lastComplete.email = IF lastComplete.stored # NoValue
                                      THEN lastComplete.stored
                                      ELSE lastComplete.answer
        /\ lastComplete.prompted => lastComplete.stored = NoValue
        /\ ~lastComplete.called =>
              /\ lastComplete.rejected
              /\ lastComplete.keys = ErrorKeys

\* The e-mail came from the prompt because storage had none, and the call
\* was made with it.
C10_Witness ==
    /\ lastComplete.called /\ lastComplete.prompted
    /\ lastComplete.stored = NoValue /\ lastComplete.email \in Emails

\* ------------------------------------------------------------------------
\* C11: every request made through the api instance is dispatched whether
\* or not an ID token can be obtained: it carries the Authorization header
\* exactly when getUserIdToken returned a non-empty token, the header then
\* holds that token, and a throw of getUserIdToken neither rejects the
\* request nor keeps it from being sent.
\* ------------------------------------------------------------------------
C11_DispatchedWithOrWithoutToken ==
    apiCall.phase # "idle" =>
        /\ apiCall.posts = 1
        /\ apiCall.authorization # NoValue <=>
               (~apiCall.idToken.threw /\ apiCall.idToken.token # "")
        /\ apiCall.authorization # NoValue =>
               apiCall.authorization = apiCall.idToken.token
        /\ apiCall.idToken.threw => apiCall.authorization = NoValue

\* A request of a caller nobody is signed in for went out without the
\* header and was answered by the server.
C11_Witness ==
    /\ apiCall.phase = "answered" /\ apiCall.fn \in PlainCalls
    /\ apiCall.idToken.threw /\ apiCall.idToken.message = "No user signed in"
    /\ apiCall.posts = 1 /\ apiCall.authorization = NoValue
    /\ apiCall.wire.kind = "response" /\ apiCall.wire.status = 200

\* ------------------------------------------------------------------------
\* C12: the response interceptor maps every failed request to one rejection
\* of shape {status, message, data}: status is the HTTP status when the
\* server responded, 0 when no response arrived, -1 otherwise, and data is
\* null in the last two cases; a successful response passes through
\* unchanged; no failure becomes a resolved value, up to the caller.
\* ------------------------------------------------------------------------
Succeeded(wire) == wire.kind = "response" /\ wire.status \in 200..299

RejectionShape == {"status", "message", "data"}

C12_FailuresMappedToRejections ==
    /\ apiCall.phase = "answered" =>
          LET wire == apiCall.wire
              r == ResponseInterceptor(wire)
          IN  IF Succeeded(wire)
              THEN /\ r.settled = "resolved"
                   /\ r.value = [status |-> wire.status, data |-> wire.data]
              ELSE /\ r.settled = "rejected"
                   /\ DOMAIN r.value = RejectionShape
                   /\ r.value.status = (IF wire.kind = "response" THEN wire.status
                                        ELSE IF wire.kind = "no_response" THEN 0 ELSE -1)
                   /\ wire.kind = "response" => r.value.data = wire.data
                   /\ wire.kind # "response" => r.value.data = Null
    /\ apiOutcome.settled = "rejected" => DOMAIN apiOutcome.value = RejectionShape

====
